---- MODULE Spec2Model ----
(***************************************************************************)
(* Model of the data-analyst agent: the per-request time budget            *)
(* (utils/timer.py), the regex plan parser (utils/formats.py), the         *)
(* size-bounded chart encoder (utils/plotter.py) and the request handler   *)
(* (main.py: routing and result shaping).                                  *)
(*                                                                         *)
(* Time is counted in whole clock ticks (one tick = one second of          *)
(* time.monotonic()).  Texts are strings read character by character, so   *)
(* that the regular expressions of formats.py are matched as the regex     *)
(* engine matches them.                                                    *)
(***************************************************************************)
EXTENDS Integers, Sequences, FiniteSets, TLC

VARIABLES
    \* ---- TimeBudget (utils/timer.py) and the monotonic clock
    total_seconds,      \* TimeBudget.total_seconds
    start_monotonic,    \* TimeBudget.start_monotonic
    monotonic,          \* the value time.monotonic() returns now
    prevRemaining,      \* the value the read before the last one returned
    lastRemaining,      \* the value the last remaining_seconds() read returned
    lastCheck,          \* the last time_exhausted(buffer) call: buffer, instant, result,
                        \* and whether the call raised
    \* ---- the chart encoder (utils/plotter.py): one call and its position
    entry,              \* the function called: encode_fig or encode_image_under_limit
    mime,               \* argument mime
    max_bytes,          \* argument max_bytes
    mode,               \* argument mode (encode_fig only)
    min_width,          \* argument min_width
    min_height,         \* argument min_height
    fig_size,           \* pixel size <<w, h>> of the figure's baseline render
    tiny_len,           \* byte length of _tiny_fallback_image_bytes(mime)
    enc_pc,             \* position in the call
    img_bytes,          \* the baseline render (local img_bytes)
    width,              \* local width
    height,             \* local height
    quality,            \* local quality (NoQuality for PNG)
    best,               \* local best
    attempts,           \* iterations of the for loop started so far
    data,               \* what _encode_under_limit_bytes returned
    encoded,            \* what the called function returned
    produced,           \* the byte lengths of the candidates the call has encoded so far
    encodings,          \* how many encodings the call has made so far
    \* ---- one request in handle_api (main.py)
    variant,            \* which main.py: "app" (src/app) or "daa" (src/data-analyst-agent/app)
    q_text,             \* the text of questions.txt
    combined_plan,      \* local combined_plan
    req_pc,             \* position in handle_api
    route,              \* the candidate the router selected
    route_check,        \* the router's time_exhausted(buffer) call: buffer and answer
    consulted,          \* ask_openai_json was called
    invoked,            \* the handlers invoked, in order
    raised,             \* whether the invoked handler raised, and the exception text
    result_payload,     \* local result_payload
    shaped,             \* local shaped
    response            \* the JSON response

timerVars == <<total_seconds, start_monotonic, monotonic,
               prevRemaining, lastRemaining, lastCheck>>

encVars == <<entry, mime, max_bytes, mode, min_width, min_height, fig_size, tiny_len,
             enc_pc, img_bytes, width, height, quality, best, attempts, data, encoded,
             produced, encodings>>

reqVars == <<variant, q_text, combined_plan, req_pc, route, route_check, consulted,
             invoked, raised, result_payload, shaped, response>>

vars == <<timerVars, encVars, reqVars>>

\* What an action of one part leaves alone: the variables of the other parts.
notTimerVars == <<encVars, reqVars>>
notEncVars == <<timerVars, reqVars>>
notReqVars == <<timerVars, encVars>>

\* What a read variable holds before the first read (no read returns it:
\* the mutant check below relies on reads alone being compared).
NoRead == 0 - 1000

NoCheck == [made |-> FALSE, buffer |-> 0, at |-> 0, result |-> FALSE,
            clock_failed |-> FALSE, raised |-> FALSE]

Max(a, b) == IF a >= b THEN a ELSE b
Min(a, b) == IF a <= b THEN a ELSE b

(***************************************************************************)
(* utils/timer.py                                                          *)
(***************************************************************************)

\* Bounds of the timer specification.
MaxTotal == 4
MaxStart == 2
MaxBuffer == 3
MaxOverrun == 2

deadline_monotonic == start_monotonic + total_seconds

\* (mutant: the floor at 0 left out)
remaining_seconds_nofloor == deadline_monotonic - monotonic

remaining_seconds == Max(0, deadline_monotonic - monotonic)

elapsed_seconds == Max(0, monotonic - start_monotonic)

\* (mutant: a strict comparison)
time_exhausted_strict(buffer_seconds) == remaining_seconds < Max(0, buffer_seconds)

time_exhausted(buffer_seconds) == remaining_seconds <= Max(0, buffer_seconds)

\* with_time_budget(total): the budget starts at the current clock reading.
TimerInit ==
    /\ total_seconds \in 0..MaxTotal
    /\ monotonic \in 0..MaxStart
    /\ start_monotonic = monotonic
    /\ prevRemaining = NoRead
    /\ lastRemaining = NoRead
    /\ lastCheck = NoCheck

\* The monotonic clock advances; it never goes back.
Tick ==
    /\ \E d \in 1..2 :
         /\ monotonic + d <= start_monotonic + total_seconds + MaxOverrun
         /\ monotonic' = monotonic + d
    /\ UNCHANGED <<total_seconds, start_monotonic, prevRemaining, lastRemaining, lastCheck, notTimerVars>>

ReadRemaining ==
    /\ prevRemaining' = lastRemaining
    /\ lastRemaining' = remaining_seconds
    /\ UNCHANGED <<total_seconds, start_monotonic, monotonic, lastCheck, notTimerVars>>

CheckExhausted ==
    /\ \E b \in (0 - 1)..MaxBuffer :
         lastCheck' = [made |-> TRUE, buffer |-> b, at |-> monotonic,
                       result |-> time_exhausted(b), clock_failed |-> FALSE, raised |-> FALSE]
    /\ UNCHANGED <<total_seconds, start_monotonic, monotonic, prevRemaining, lastRemaining, notTimerVars>>

\* time_exhausted(b) while time.monotonic() raises (line 21): nothing between
\* the clock and the caller catches, the call raises and gives no answer.
CheckExhaustedClockFails ==
    /\ \E b \in (0 - 1)..MaxBuffer :
         lastCheck' = [made |-> TRUE, buffer |-> b, at |-> monotonic,
                       result |-> FALSE, clock_failed |-> TRUE, raised |-> TRUE]
    /\ UNCHANGED <<total_seconds, start_monotonic, monotonic, prevRemaining, lastRemaining, notTimerVars>>

TimerNext == Tick \/ ReadRemaining \/ CheckExhausted \/ CheckExhaustedClockFails

(***************************************************************************)
(* utils/plotter.py: the size-bounded encoder.  A byte string is a record  *)
(* [src, len]: which encoding produced it and its length.  The lengths the *)
(* renderer and the image library produce are not decided by this code:    *)
(* every encoding picks its length freely in 1..MaxSize.                   *)
(***************************************************************************)

\* Bounds of the encoder specification.
MaxSize == 4
MaxBytes == 4
MaxTiny == 2

\* Program constants of _encode_under_limit_bytes.
MaxAttempts == 10
StartQuality == 85
MinQuality == 40
QualityStep == 10
DefaultMinWidth == 240
DefaultMinHeight == 180

NoQuality == 0 - 1
NoBytes == [src |-> "none", len |-> 0]
NoEncoded == [form |-> "none", mime |-> "none", payload |-> NoBytes]

\* Pixel sizes of the baseline render, and the floors a caller passes.
FigSizes == {<<2000, 1400>>, <<600, 420>>, <<240, 180>>, <<200, 150>>}
MinSizes == {<<DefaultMinWidth, DefaultMinHeight>>, <<300, 200>>}

\* The state of the encoder variables while no call is modelled.
EncIdle ==
    /\ entry = "none" /\ mime = "none" /\ max_bytes = 0 /\ mode = "none"
    /\ min_width = 0 /\ min_height = 0 /\ fig_size = <<0, 0>> /\ tiny_len = 0
    /\ enc_pc = "idle" /\ img_bytes = NoBytes /\ width = 0 /\ height = 0
    /\ quality = NoQuality /\ best = NoBytes /\ attempts = 0
    /\ data = NoBytes /\ encoded = NoEncoded
    /\ produced = {} /\ encodings = 0

\* fmt = "png" if "png" in mime.lower() else "jpeg"
fmt == IF mime = "image/png" THEN "png" ELSE "jpeg"

\* int(x * 0.85) for a non-negative integer x
Shrink(x) == (85 * x) \div 100

\* _tiny_fallback_image_bytes(mime)
_tiny_fallback_image_bytes == [src |-> "placeholder", len |-> tiny_len]

\* The argument of one call, the figure and the placeholder's size.
EncoderInit ==
    /\ entry \in {"encode_fig", "encode_image_under_limit"}
    /\ mime \in {"image/png", "image/jpeg"}
    /\ max_bytes \in 0..MaxBytes
    /\ mode \in {"data_uri", "raw_base64"}
    /\ \E m \in MinSizes : min_width = m[1] /\ min_height = m[2]
    /\ fig_size \in FigSizes
    /\ tiny_len \in 1..MaxTiny
    /\ enc_pc = "start"
    /\ img_bytes = NoBytes /\ width = 0 /\ height = 0
    /\ quality = NoQuality /\ best = NoBytes /\ attempts = 0
    /\ data = NoBytes /\ encoded = NoEncoded
    /\ produced = {} /\ encodings = 0

\* What no step of a call changes: its arguments, and the other parts.
encArgs == <<entry, mime, max_bytes, mode, min_width, min_height, fig_size, tiny_len, notEncVars>>

\* An exception of the renderer or the image library leaves the call.
EncRaise ==
    /\ enc_pc \in {"start", "loop", "final"}
    /\ enc_pc' = "raised"
    /\ UNCHANGED <<encArgs, img_bytes, width, height, quality, best, attempts, data, encoded,
                   produced, encodings>>

\* Lines 104-116 and 118: the baseline render; returned as it is when it fits.
\* (mutant: the first comparison as a strict one)
BaselineReturnsStrict(b) == b.len < max_bytes

BaselineReturns(b) == b.len <= max_bytes

Baseline ==
    /\ enc_pc = "start"
    /\ \E n \in 1..MaxSize :
         LET b == [src |-> "baseline", len |-> n] IN
         /\ img_bytes' = b
         /\ produced' = produced \cup {b.len}
         /\ encodings' = encodings + 1
         /\ IF BaselineReturns(b)
            THEN /\ data' = b
                 /\ enc_pc' = "returned"
                 /\ UNCHANGED <<width, height, quality, best>>
            ELSE /\ width' = fig_size[1]
                 /\ height' = fig_size[2]
                 /\ quality' = IF fmt = "jpeg" THEN StartQuality ELSE NoQuality
                 /\ best' = b
                 /\ enc_pc' = "loop"
                 /\ UNCHANGED data
    /\ UNCHANGED <<encArgs, attempts, encoded>>

\* Line 119: for _ in range(10)
\* (mutant: a loop without the cap on its iterations)
MoreAttemptsUncapped(n) == TRUE

MoreAttempts(n) == n < MaxAttempts

\* Lines 119-147: one iteration of the for loop.
LoopStep ==
    /\ enc_pc = "loop"
    /\ MoreAttempts(attempts)
    /\ LET new_w == Max(min_width, Shrink(width))
           new_h == Max(min_height, Shrink(height))
       IN
       IF <<new_w, new_h>> = <<width, height>> /\ <<width, height>> = <<min_width, min_height>>
       THEN \* break
            /\ enc_pc' = "final"
            /\ UNCHANGED <<width, height, quality, best, attempts, data, produced, encodings>>
       ELSE /\ width' = new_w
            /\ height' = new_h
            /\ quality' = IF fmt = "jpeg" THEN Max(MinQuality, quality - QualityStep)
                          ELSE quality
            /\ attempts' = attempts + 1
            /\ \E n \in 1..MaxSize :
                 LET d == [src |-> "loop", len |-> n] IN
                 /\ produced' = produced \cup {d.len}
                 /\ encodings' = encodings + 1
                 /\ best' = IF d.len < best.len THEN d ELSE best
                 /\ IF d.len <= max_bytes
                    THEN data' = d /\ enc_pc' = "returned"
                    ELSE /\ UNCHANGED data
                         /\ enc_pc' = IF MoreAttempts(attempts + 1) THEN "loop" ELSE "final"
    /\ UNCHANGED <<encArgs, img_bytes, encoded>>

\* Lines 149-160: the final aggressive attempt.
\* (mutant: the final attempt returned whatever its size)
FinalOrBestAlwaysFinal(d, b) == d

\* Line 160: return data if len(data) <= len(best) else best
FinalOrBest(d, b) == IF d.len <= b.len THEN d ELSE b

FinalAttempt ==
    /\ enc_pc = "final"
    /\ \E n \in 1..MaxSize :
         LET d == [src |-> "final", len |-> n] IN
         /\ produced' = produced \cup {d.len}
         /\ data' = FinalOrBest(d, best)
    /\ encodings' = encodings + 1
    /\ enc_pc' = "returned"
    /\ UNCHANGED <<encArgs, img_bytes, width, height, quality, best, attempts, encoded>>

\* encode_fig, lines 188-195: the placeholder when the core's bytes are over the
\* limit, then the data URI or the bare base64 text.
\* (mutant: the placeholder substitution left out)
FallbackNever(d) == FALSE

FallbackNeeded(d) == d.len > max_bytes

EncodeFigReturn ==
    /\ enc_pc = "returned"
    /\ entry = "encode_fig"
    /\ LET d == IF FallbackNeeded(data) THEN _tiny_fallback_image_bytes ELSE data IN
       encoded' = [form |-> IF mode = "raw_base64" THEN "raw_base64" ELSE "data_uri",
                   mime |-> mime, payload |-> d]
    /\ encodings' = IF FallbackNeeded(data) THEN encodings + 1 ELSE encodings
    /\ enc_pc' = "done"
    /\ UNCHANGED <<encArgs, img_bytes, width, height, quality, best, attempts, data, produced>>

\* encode_image_under_limit, lines 171-172: always a data URI, no placeholder.
EncodeImageReturn ==
    /\ enc_pc = "returned"
    /\ entry = "encode_image_under_limit"
    /\ encoded' = [form |-> "data_uri", mime |-> mime, payload |-> data]
    /\ enc_pc' = "done"
    /\ UNCHANGED <<encArgs, img_bytes, width, height, quality, best, attempts, data,
                   produced, encodings>>

EncoderNext ==
    \/ Baseline
    \/ LoopStep
    \/ FinalAttempt
    \/ EncodeFigReturn
    \/ EncodeImageReturn
    \/ EncRaise

(***************************************************************************)
(* utils/formats.py: the regex plan parser.  A text is a string; Ch(t, i)  *)
(* is its i-th character.  Every pattern is matched the way re matches it: *)
(* leftmost start first, greedy, case folded where the pattern is compiled *)
(* with IGNORECASE.                                                        *)
(***************************************************************************)

Ch(t, i) == SubSeq(t, i, i)

UpperLetters == "ABCDEFGHIJKLMNOPQRSTUVWXYZ"
LowerLetters == "abcdefghijklmnopqrstuvwxyz"
Digits == "0123456789"

CharsOf(alphabet) == {Ch(alphabet, i) : i \in 1..Len(alphabet)}

UpperSet == CharsOf(UpperLetters)
LowerSet == CharsOf(LowerLetters)
DigitSet == CharsOf(Digits)

IsSpace(c) == c \in {" ", "\n", "\t", "\r"}
IsDigit(c) == c \in DigitSet
IsAlpha(c) == c \in UpperSet \cup LowerSet
\* \w
IsWord(c) == IsAlpha(c) \/ IsDigit(c) \/ c = "_"

\* str.lower() of one character, and of a text
LowerChar(c) ==
    IF c \in UpperSet
    THEN Ch(LowerLetters, CHOOSE i \in 1..Len(UpperLetters) : Ch(UpperLetters, i) = c)
    ELSE c

\* the least element of a non-empty set of integers
Least(S) == CHOOSE x \in S : \A y \in S : x <= y

RECURSIVE LowerRange(_, _, _)
LowerRange(t, a, b) ==
    IF a > b THEN ""
    ELSE IF a = b THEN LowerChar(Ch(t, a))
    ELSE LET m == (a + b) \div 2 IN LowerRange(t, a, m) \o LowerRange(t, m + 1, b)

Lower(t) == LowerRange(t, 1, Len(t))

\* str.strip()
RECURSIVE FirstNonSpace(_, _)
FirstNonSpace(t, i) ==
    IF i > Len(t) \/ ~IsSpace(Ch(t, i)) THEN i ELSE FirstNonSpace(t, i + 1)

RECURSIVE LastNonSpace(_, _)
LastNonSpace(t, i) ==
    IF i < 1 \/ ~IsSpace(Ch(t, i)) THEN i ELSE LastNonSpace(t, i - 1)

Strip(t) == SubSeq(t, FirstNonSpace(t, 1), LastNonSpace(t, Len(t)))

\* int() of a string of decimal digits
DigitValue(c) == (CHOOSE i \in 1..Len(Digits) : Ch(Digits, i) = c) - 1

RECURSIVE IntOfFrom(_, _, _)
IntOfFrom(t, i, acc) ==
    IF i > Len(t) THEN acc ELSE IntOfFrom(t, i + 1, 10 * acc + DigitValue(Ch(t, i)))

IntOf(t) == IntOfFrom(t, 1, 0)

\* The literal w stands in t at i (t already case folded where it has to be).
LitAt(t, i, w) == i >= 1 /\ i + Len(w) - 1 <= Len(t) /\ SubSeq(t, i, i + Len(w) - 1) = w

\* \s* from i: the position after the run of white space starting at i.
SkipSpace(t, i) == FirstNonSpace(t, i)

\* \d* from i: the position after the run of digits starting at i.
RECURSIVE SkipDigits(_, _)
SkipDigits(t, i) == IF i > Len(t) \/ ~IsDigit(Ch(t, i)) THEN i ELSE SkipDigits(t, i + 1)

\* [a-zA-Z]+ from i: the position after the run of letters starting at i.
RECURSIVE SkipAlpha(_, _)
SkipAlpha(t, i) == IF i > Len(t) \/ ~IsAlpha(Ch(t, i)) THEN i ELSE SkipAlpha(t, i + 1)

\* A sequence of words w1 \s+ w2 \s+ ... stands in t at i; the position after
\* it, or 0.  sep is the least number of white space characters between words
\* (1 for \s+, 0 for \s*).
RECURSIVE WordsAt(_, _, _, _)
WordsAt(t, i, ws, sep) ==
    IF ws = <<>> THEN i
    ELSE IF ~LitAt(t, i, Head(ws)) THEN 0
    ELSE LET j == i + Len(Head(ws)) IN
         IF Tail(ws) = <<>> THEN j
         ELSE LET k == SkipSpace(t, j) IN
              IF k - j < sep THEN 0 ELSE WordsAt(t, k, Tail(ws), sep)

\* re.search of such a sequence of words: it stands somewhere in t.
SearchWords(t, ws, sep) == \E i \in 1..Len(t) : WordsAt(t, i, ws, sep) # 0

\* ARRAY_HINT_RE = json\s+array\s+of\s+(strings|items), IGNORECASE
ARRAY_HINT_RE_search(t) ==
    \/ SearchWords(Lower(t), <<"json", "array", "of", "strings">>, 1)
    \/ SearchWords(Lower(t), <<"json", "array", "of", "items">>, 1)

\* OBJECT_HINT_RE = json\s+object, IGNORECASE
OBJECT_HINT_RE_search(t) == SearchWords(Lower(t), <<"json", "object">>, 1)

\* ARRAY_COUNT_RE =
\*   (?:array|return|respond)\s+(?:with|of|exactly)\s*(\d+)\s*(?:items|elements|strings)?
\* matched at i of the case-folded text: the span <<from, to>> of group 1, or <<0, 0>>.
ARRAY_COUNT_RE_at(t, i) ==
    LET heads == {<<a, b>> : a \in {"array", "return", "respond"}, b \in {"with", "of", "exactly"}}
        ends == {WordsAt(t, i, <<h[1], h[2]>>, 1) : h \in heads} \ {0}
    IN  IF ends = {} THEN <<0, 0>>
        ELSE LET e == CHOOSE x \in ends : TRUE
                 d == SkipSpace(t, e)
                 f == SkipDigits(t, d)
             IN IF f > d THEN <<d, f - 1>> ELSE <<0, 0>>

NoneInt == 0 - 1

\* _extract_array_count: group 1 of the leftmost match as an integer, or None.
_extract_array_count(t) ==
    LET l == Lower(t)
        starts == {i \in 1..Len(l) : ARRAY_COUNT_RE_at(l, i) # <<0, 0>>}
    IN  IF starts = {} THEN NoneInt
        ELSE LET i == Least(starts)
                 g == ARRAY_COUNT_RE_at(l, i)
             IN IntOf(SubSeq(l, g[1], g[2]))

\* ^ and $ of a MULTILINE pattern at position i
Bol(t, i) == i = 1 \/ (i >= 2 /\ i <= Len(t) + 1 /\ Ch(t, i - 1) = "\n")
Eol(t, i) == i = Len(t) + 1 \/ (i >= 1 /\ i <= Len(t) /\ Ch(t, i) = "\n")

\* the first position >= i where the line of i ends
LineEnd(t, i) == Least({k \in i..(Len(t) + 1) : Eol(t, k)})

\* [A-Za-z0-9_\-]+ from i: the position after the run
RECURSIVE SkipKeyChars(_, _)
SkipKeyChars(t, i) ==
    IF i > Len(t) \/ ~(IsWord(Ch(t, i)) \/ Ch(t, i) = "-") THEN i ELSE SkipKeyChars(t, i + 1)

NoMatch == [ok |-> FALSE, from |-> 0, to |-> 0, end |-> 0]

\* BULLET_KEY_RE = ^\s*-\s*([A-Za-z0-9_\-]+)\s*:\s*$  (MULTILINE) matched at i:
\* group 1 is t[from..to], the match ends before position end.
BULLET_KEY_RE_at(t, i) ==
    IF ~Bol(t, i) THEN NoMatch
    ELSE LET a == SkipSpace(t, i) IN
         IF ~LitAt(t, a, "-") THEN NoMatch
         ELSE LET b == SkipSpace(t, a + 1)
                  c == SkipKeyChars(t, b)
                  d == SkipSpace(t, c)
              IN IF c = b \/ ~LitAt(t, d, ":") THEN NoMatch
                 ELSE LET e == SkipSpace(t, d + 1)
                          stops == {k \in (d + 1)..e : Eol(t, k)}
                      IN IF stops = {} THEN NoMatch
                         ELSE [ok |-> TRUE, from |-> b, to |-> c - 1,
                               end |-> CHOOSE k \in stops : \A x \in stops : x <= k]

\* keys.append(x) unless x is empty or already there
AppendNew(keys, x) ==
    IF x = "" \/ (\E n \in 1..Len(keys) : keys[n] = x) THEN keys ELSE Append(keys, x)

\* (mutant: a key is appended without the membership test)
AppendAlways(keys, x) == IF x = "" THEN keys ELSE Append(keys, x)

\* lines 45-48: for m in BULLET_KEY_RE.finditer(text), from position i on
RECURSIVE BulletKeysFrom(_, _, _)
BulletKeysFrom(t, i, keys) ==
    LET starts == {k \in i..Len(t) : BULLET_KEY_RE_at(t, k).ok} IN
    IF starts = {} THEN keys
    ELSE LET m == BULLET_KEY_RE_at(t, Least(starts)) IN
         BulletKeysFrom(t, m.end, AppendNew(keys, Strip(SubSeq(t, m.from, m.to))))

\* KEYS_LIST_LINE_RE = keys?\s*:\s*(.+)$  (IGNORECASE, MULTILINE) matched at i
KEYS_LIST_LINE_RE_at(t, i) ==
    IF ~(i + 2 <= Len(t) /\ Lower(SubSeq(t, i, i + 2)) = "key") THEN NoMatch
    ELSE LET j == IF i + 3 <= Len(t) /\ Lower(Ch(t, i + 3)) = "s" THEN i + 4 ELSE i + 3
             a == SkipSpace(t, j)
         IN IF ~LitAt(t, a, ":") THEN NoMatch
            ELSE LET b == SkipSpace(t, a + 1) IN
                 IF b > Len(t) THEN NoMatch
                 ELSE [ok |-> TRUE, from |-> b, to |-> LineEnd(t, b) - 1,
                       end |-> LineEnd(t, b)]

\* the first position >= i holding a double quote, or 0
NextQuote(t, i) ==
    LET qs == {k \in i..Len(t) : Ch(t, k) = "\""} IN IF qs = {} THEN 0 ELSE Least(qs)

\* lines 52-55: for q in re.findall(r'"([^"]+)"', line), from position i on
RECURSIVE QuotedKeysFrom(_, _, _)
QuotedKeysFrom(line, i, keys) ==
    LET a == NextQuote(line, i) IN
    IF a = 0 THEN keys
    ELSE LET b == NextQuote(line, a + 1) IN
         IF b = 0 THEN keys
         ELSE IF b = a + 1 THEN QuotedKeysFrom(line, a + 1, keys)
         ELSE QuotedKeysFrom(line, b + 1, AppendNew(keys, Strip(SubSeq(line, a + 1, b - 1))))

\* lines 50-55: for m in KEYS_LIST_LINE_RE.finditer(text), from position i on
RECURSIVE KeysLinesFrom(_, _, _)
KeysLinesFrom(t, i, keys) ==
    LET starts == {k \in i..Len(t) : KEYS_LIST_LINE_RE_at(t, k).ok} IN
    IF starts = {} THEN keys
    ELSE LET m == KEYS_LIST_LINE_RE_at(t, Least(starts)) IN
         KeysLinesFrom(t, m.end, QuotedKeysFrom(SubSeq(t, m.from, m.to), 1, keys))

_extract_object_keys(t) == KeysLinesFrom(t, 1, BulletKeysFrom(t, 1, <<>>))

\* SIZE_RE = (\d{2,3}[,]?\d{3})\s*bytes|([1-9]\d*)\s*k(?:b|ib)?  (IGNORECASE)
AllDigits(t, i, n) == i + n - 1 <= Len(t) /\ \A k \in i..(i + n - 1) : IsDigit(Ch(t, k))

\* First alternative at i with a leading digits (3, then 2): group 1's span.
SizeBytesAt(t, i, a) ==
    IF ~AllDigits(t, i, a) THEN <<0, 0>>
    ELSE LET j == IF LitAt(t, i + a, ",") THEN i + a + 1 ELSE i + a IN
         IF AllDigits(t, j, 3) /\ LitAt(t, SkipSpace(t, j + 3), "bytes")
         THEN <<i, j + 2>> ELSE <<0, 0>>

\* Second alternative at i: group 2's span.
SizeKiloAt(t, i) ==
    IF i > Len(t) \/ ~IsDigit(Ch(t, i)) \/ Ch(t, i) = "0" THEN <<0, 0>>
    ELSE LET e == SkipDigits(t, i + 1) IN
         IF LitAt(t, SkipSpace(t, e), "k") THEN <<i, e - 1>> ELSE <<0, 0>>

SIZE_RE_at(t, i) ==
    LET g3 == SizeBytesAt(t, i, 3)
        g2 == SizeBytesAt(t, i, 2)
        k == SizeKiloAt(t, i)
    IN  IF g3 # <<0, 0>> THEN [ok |-> TRUE, group |-> 1, from |-> g3[1], to |-> g3[2]]
        ELSE IF g2 # <<0, 0>> THEN [ok |-> TRUE, group |-> 1, from |-> g2[1], to |-> g2[2]]
        ELSE IF k # <<0, 0>> THEN [ok |-> TRUE, group |-> 2, from |-> k[1], to |-> k[2]]
        ELSE [ok |-> FALSE, group |-> 0, from |-> 0, to |-> 0]

\* str.replace(",", "")
RECURSIVE WithoutCommas(_, _)
WithoutCommas(t, i) ==
    IF i > Len(t) THEN ""
    ELSE (IF Ch(t, i) = "," THEN "" ELSE Ch(t, i)) \o WithoutCommas(t, i + 1)

DefaultMaxBytes == 100000
KiloFactor == 1000

_extract_global_max_bytes(t) ==
    LET l == Lower(t)
        starts == {i \in 1..Len(l) : SIZE_RE_at(l, i).ok}
    IN  IF starts = {} THEN DefaultMaxBytes
        ELSE LET m == SIZE_RE_at(l, Least(starts)) IN
             IF m.group = 1 THEN IntOf(WithoutCommas(SubSeq(l, m.from, m.to), 1))
             ELSE IntOf(SubSeq(l, m.from, m.to)) * KiloFactor

NoKeys == <<>>

\* parse_required_shape: object_keys None is the empty sequence here, as
\* parse_plan reads it through "or []".
parse_required_shape(text) ==
    LET t == Strip(text)
        is_array == ARRAY_HINT_RE_search(t)
        is_object == OBJECT_HINT_RE_search(t) /\ ~is_array
    IN  IF is_array
        THEN [type |-> "array", array_len |-> _extract_array_count(t), object_keys |-> NoKeys]
        ELSE [type |-> "object", array_len |-> NoneInt,
              object_keys |-> IF is_object THEN _extract_object_keys(t) ELSE NoKeys]

\* re.findall(r"[a-zA-Z]+", l) from position i on
RECURSIVE TokensFrom(_, _, _)
TokensFrom(l, i, acc) ==
    LET starts == {k \in i..Len(l) : IsAlpha(Ch(l, k))} IN
    IF starts = {} THEN acc
    ELSE LET a == Least(starts)
             e == SkipAlpha(l, a)
         IN TokensFrom(l, e, Append(acc, SubSeq(l, a, e - 1)))

Tokens(l) == TokensFrom(l, 1, <<>>)

\* X_RE.fullmatch(tok) for a token of lower-case letters
BAR_RE_fullmatch(tok) == tok \in {"bar", "bars", "barchart"}
LINE_RE_fullmatch(tok) == tok \in {"linechart", "lineplot"}
HIST_RE_fullmatch(tok) == tok \in {"hist", "histogram"}
SCATTER_RE_fullmatch(tok) == tok = "scatter"
COLOR_RE_fullmatch(tok) == tok \in {"blue", "green", "red", "orange", "purple", "black"}

ColorWindow == 3

\* _find_color_near: the colour token nearest to idx, the one before idx first;
\* "" for None.
_find_color_near(idx, tokens) ==
    LET cand == <<idx - 1, idx + 1, idx - 2, idx + 2, idx - ColorWindow, idx + ColorWindow>>
        hits == {n \in 1..Len(cand) :
                    cand[n] >= 1 /\ cand[n] <= Len(tokens) /\ COLOR_RE_fullmatch(tokens[cand[n]])}
    IN  IF hits = {} THEN "" ELSE tokens[cand[Least(hits)]]

Or(color, default) == IF color = "" THEN default ELSE color

\* \bred\b stands somewhere in l
RedWord(l) ==
    \E i \in 1..Len(l) :
        /\ LitAt(l, i, "red")
        /\ (i = 1 \/ ~IsWord(Ch(l, i - 1)))
        /\ (i + 3 > Len(l) \/ ~IsWord(Ch(l, i + 3)))

\* the spec one token gives, as a sequence of zero or one specs
SpecOfToken(l, tokens, i, limit) ==
    LET tok == tokens[i] IN
    IF BAR_RE_fullmatch(tok)
    THEN <<[slot_key |-> "bar_chart", type |-> "bar",
            color |-> Or(_find_color_near(i, tokens), "blue"), max_bytes |-> limit]>>
    ELSE IF LINE_RE_fullmatch(tok)
    THEN <<[slot_key |-> "line_chart", type |-> "line",
            color |-> Or(_find_color_near(i, tokens), "red"), max_bytes |-> limit]>>
    ELSE IF HIST_RE_fullmatch(tok)
    THEN <<[slot_key |-> "histogram", type |-> "hist",
            color |-> Or(_find_color_near(i, tokens), "orange"), max_bytes |-> limit]>>
    ELSE IF SCATTER_RE_fullmatch(tok)
    THEN <<[slot_key |-> "scatter_plot", type |-> "scatter",
            color |-> IF SearchWords(l, <<"dotted", "red", "regression", "line">>, 1) \/ RedWord(l)
                      THEN "red" ELSE "blue",
            max_bytes |-> limit]>>
    ELSE <<>>

\* lines 104-117: the specs of tokens i.. in order
RECURSIVE SpecsFrom(_, _, _, _, _)
SpecsFrom(l, tokens, i, limit, acc) ==
    IF i > Len(tokens) THEN acc
    ELSE SpecsFrom(l, tokens, i + 1, limit, acc \o SpecOfToken(l, tokens, i, limit))

\* (mutant: the seen-set test left out, every spec is kept)
DedupNone(specs, i, acc) == specs

\* lines 119-127: keep the first spec of each (slot_key, type, color)
RECURSIVE Dedup(_, _, _)
Dedup(specs, i, acc) ==
    IF i > Len(specs) THEN acc
    ELSE IF \E n \in 1..Len(acc) :
                /\ acc[n].slot_key = specs[i].slot_key
                /\ acc[n].type = specs[i].type
                /\ acc[n].color = specs[i].color
         THEN Dedup(specs, i + 1, acc)
         ELSE Dedup(specs, i + 1, Append(acc, specs[i]))

detect_chart_specs(text) ==
    LET t == Strip(text)
        l == Lower(t)
        tokens == Tokens(l)
    IN  Dedup(SpecsFrom(l, tokens, 1, _extract_global_max_bytes(t), <<>>), 1, <<>>)

\* \w+ from i: the position after the run
RECURSIVE SkipWord(_, _)
SkipWord(t, i) == IF i > Len(t) \/ ~IsWord(Ch(t, i)) THEN i ELSE SkipWord(t, i + 1)

\* DATA_URI_RE = data\s*uri|data:image/\w+;base64  (IGNORECASE)
DATA_URI_RE_search(t) ==
    LET l == Lower(t) IN
    \/ SearchWords(l, <<"data", "uri">>, 0)
    \/ \E i \in 1..Len(l) :
          /\ LitAt(l, i, "data:image/")
          /\ SkipWord(l, i + 11) > i + 11
          /\ LitAt(l, SkipWord(l, i + 11), ";base64")

\* RAW_B64_RE = raw\s*base64|base64\s*(png|only)\b  (IGNORECASE)
RAW_B64_RE_search(t) ==
    LET l == Lower(t) IN
    \/ SearchWords(l, <<"raw", "base64">>, 0)
    \/ \E i \in 1..Len(l) : \E w \in {"png", "only"} :
          LET e == WordsAt(l, i, <<"base64", w>>, 0) IN
          e # 0 /\ (e > Len(l) \/ ~IsWord(Ch(l, e)))

\* (mutant: the data-URI signal is not looked at)
wants_raw_base64_nodatauri(text) == RAW_B64_RE_search(Strip(text))

wants_raw_base64(text) ==
    LET t == Strip(text) IN
    IF DATA_URI_RE_search(t) THEN FALSE
    ELSE IF RAW_B64_RE_search(t) THEN TRUE
    ELSE SearchWords(Lower(t), <<"base64", "png">>, 1)

parse_plan(text) ==
    LET shape == parse_required_shape(text) IN
    [response_type |-> shape.type,
     array_len |-> shape.array_len,
     object_keys |-> shape.object_keys,
     charts |-> detect_chart_specs(text),
     raw_base64_images |-> wants_raw_base64(text)]

(***************************************************************************)
(* main.py: values of a task result, and result shaping.                   *)
(* A Python value is a record [kind, num, str]; numbers are counted in     *)
(* tenths (12.5 is num = 125), so that float("12.5") is a computation.     *)
(* A task result (a dict) is a function from its keys to values.           *)
(***************************************************************************)

Tenths == 10

PyNone == [kind |-> "none", num |-> 0, str |-> ""]
PyInt(n) == [kind |-> "int", num |-> n * Tenths, str |-> ""]
PyFloat(tenths) == [kind |-> "float", num |-> tenths, str |-> ""]
PyBool(b) == [kind |-> "bool", num |-> IF b THEN Tenths ELSE 0, str |-> ""]
PyStr(x) == [kind |-> "str", num |-> 0, str |-> x]
\* a list of n items (the items themselves are not looked at by main.py)
PyList(n) == [kind |-> "list", num |-> n, str |-> ""]

\* isinstance(val, (int, float)): bool is a subclass of int
IsNumber(val) == val.kind \in {"int", "float", "bool"}
\* isinstance(val, str)
IsStr(val) == val.kind = "str"

\* float(s) for a string: white space stripped, an optional sign, digits with
\* at most one point and at most one digit after it.  ok = FALSE is ValueError.
\* (Exponents, inf/nan and digit separators are not modelled; no input uses them.)
ParseFloat(x) ==
    LET t == Strip(x)
        neg == LitAt(t, 1, "-")
        a == IF LitAt(t, 1, "-") \/ LitAt(t, 1, "+") THEN 2 ELSE 1
        b == SkipDigits(t, a)
        point == LitAt(t, b, ".")
        c == IF point THEN SkipDigits(t, b + 1) ELSE b
        whole == IF b > a THEN IntOf(SubSeq(t, a, b - 1)) ELSE 0
        frac == IF c > b + 1 THEN IntOf(SubSeq(t, b + 1, c - 1)) ELSE 0
        ok == /\ c = Len(t) + 1
              /\ (b > a \/ c > b + 1)
              /\ c - (b + 1) <= 1
        mag == whole * Tenths + frac
    IN  [ok |-> ok, num |-> IF neg THEN 0 - mag ELSE mag]

\* (mutant: the except branch leaves the value as it is)
CoerceNumberKeep(val) ==
    IF val.kind = "str" /\ ParseFloat(val.str).ok THEN PyFloat(ParseFloat(val.str).num) ELSE val

\* lines 289-293: try: val = float(val) / except Exception: val = 0.0,
\* for a val that is no int and no float
CoerceNumber(val) ==
    IF val.kind = "str" /\ ParseFloat(val.str).ok THEN PyFloat(ParseFloat(val.str).num)
    ELSE PyFloat(0)

NumericKeys == {"total_sales", "avg_latency_ms", "avg_temperature"}
ImageKeys == {"bar_chart", "scatter_plot", "line_chart"}

\* x in s, for strings
Contains(t, w) == \E i \in 1..(Len(t) + 1) : LitAt(t, i, w) \/ w = ""

Has(payload, k) == k \in DOMAIN payload
Get(payload, k, default) == IF k \in DOMAIN payload THEN payload[k] ELSE default

\* lines 235-241: chart_key_map.get(ctype), "" for None
ChartKey(cplan, ctype) ==
    LET hits == {n \in 1..Len(cplan.charts) : cplan.charts[n].type = ctype} IN
    IF hits = {} THEN "" ELSE cplan.charts[CHOOSE n \in hits : \A m \in hits : m <= n].slot_key

\* lines 244-257: the exact match, then the routing of plot_image
Resolved(cplan, payload, k) ==
    LET v0 == Get(payload, k, PyNone)
        bar == k = ChartKey(cplan, "bar")
        v1 == IF bar /\ Has(payload, "plot_image") THEN payload["plot_image"] ELSE v0
        v2 == IF k = ChartKey(cplan, "scatter") /\ Has(payload, "plot_image")
              THEN payload["plot_image"] ELSE v1
        v3 == IF k = ChartKey(cplan, "line") /\ Has(payload, "line_chart")
              THEN payload["line_chart"] ELSE v2
        v4 == IF bar /\ Has(payload, "bar_chart") THEN payload["bar_chart"] ELSE v3
    IN  IF v0 # PyNone THEN v0 ELSE v4

\* app/main.py lines 260-267: the high court mapping of textual keys
HighCourtText(payload, k, val) ==
    LET kl == Lower(k) IN
    IF val # PyNone THEN val
    ELSE IF /\ Contains(kl, "high court")
            /\ (Contains(kl, "disposed") \/ Contains(kl, "most cases"))
            /\ Has(payload, "top_court_2019_2022")
         THEN payload["top_court_2019_2022"]
    ELSE IF Contains(kl, "slope") /\ Contains(kl, "33_10")
         THEN Get(payload, "slope_33_10", PyFloat(0))
    ELSE IF (Contains(kl, "corr") \/ Contains(kl, "correlation")) /\ Contains(kl, "33_10")
         THEN Get(payload, "corr_33_10", PyFloat(0))
    ELSE val

\* app/main.py line 270: the scatter plot is rendered and encoded in shaping
NeedsScatter(payload, k, val) ==
    /\ val = PyNone \/ val = PyStr("")
    /\ Has(payload, "points_33_10")
    /\ Contains(Lower(k), "plot") \/ Contains(Lower(k), "scatter")

\* (mutant: the "N/A" default for a value still None left out)
EnforcedNoDefault(k, val) ==
    LET kl == Lower(k)
        v1 == IF kl \in NumericKeys /\ ~IsNumber(val) THEN CoerceNumber(val) ELSE val
    IN  IF kl \in ImageKeys /\ ~IsStr(v1) THEN PyStr("") ELSE v1

\* lines 288-299: the declared types, then the default
Enforced(k, val) ==
    LET kl == Lower(k)
        v1 == IF kl \in NumericKeys /\ ~IsNumber(val) THEN CoerceNumber(val) ELSE val
        v2 == IF kl \in ImageKeys /\ ~IsStr(v1) THEN PyStr("") ELSE v1
    IN  IF v2 = PyNone THEN PyStr("N/A") ELSE v2

\* The value shaping gives key k; image is what encode_fig returned for the
\* high court scatter plot (PyStr("") when plotting or encoding raised).
ShapedValue(v, cplan, payload, k, image) ==
    LET r == Resolved(cplan, payload, k) IN
    IF v = "app"
    THEN LET h == HighCourtText(payload, k, r) IN
         Enforced(k, IF NeedsScatter(payload, k, h) THEN image ELSE h)
    ELSE Enforced(k, r)

(***************************************************************************)
(* main.py: handle_api, one request.  The two main.py files differ in the  *)
(* router's candidates, in the LLM consultation and in the high court      *)
(* steps of shaping; variant says which one runs.                          *)
(***************************************************************************)

\* with_time_budget(150.0)
Budget == 150
\* len(q_text.split()) < 12
VagueWords == 12
\* budget.time_exhausted(1.0) before the LLM is asked
ConsultBuffer == 1
\* how far past the deadline the clock of a request is followed
MaxLate == 2

EmptyDict == [k \in {} |-> PyNone]
Notes(x) == [k \in {"notes"} |-> PyStr(x)]

NoPlan == [response_type |-> "", array_len |-> NoneInt, object_keys |-> <<>>,
           charts |-> <<>>, raw_base64_images |-> FALSE]
NoDecision == [made |-> FALSE, buffer |-> 0, exhausted |-> FALSE]
NoRaise == [happened |-> FALSE, msg |-> ""]
NoShaped == [kind |-> "none", arr |-> <<>>, obj |-> EmptyDict, task |-> EmptyDict]
NoResponse == [status |-> "", elapsed_sec |-> 0, remaining_sec |-> 0]

\* The state of the request variables while no request is modelled.
ReqIdle ==
    /\ variant = "none" /\ q_text = "" /\ combined_plan = NoPlan /\ req_pc = "idle"
    /\ route = "" /\ route_check = NoDecision /\ consulted = FALSE /\ invoked = <<>>
    /\ raised = NoRaise /\ result_payload = EmptyDict /\ shaped = NoShaped
    /\ response = NoResponse

\* The if/elif chain of the router: name, keywords and buffer of each branch.
Candidate(name, keywords, buffer) == [name |-> name, keywords |-> keywords, buffer |-> buffer]

TaskCandidates ==
    << Candidate("sales", {"sales", "revenue", "orders"}, 2),
       Candidate("network", {"latency", "network", "ping"}, 2),
       Candidate("weather", {"weather", "temperature", "temp "}, 2),
       Candidate("duckdb", {"duckdb", "s3"}, 2) >>

Candidates(v) ==
    IF v = "app"
    THEN << Candidate("highcourt", {"high court", "high-court", "judgments.ecourts.gov.in"}, 3),
            Candidate("wiki", {"wikipedia", "wikipedia.org"}, 2) >> \o TaskCandidates
    ELSE << Candidate("wiki", {"wikipedia", "wiki", "http://", "https://"}, 2) >> \o TaskCandidates

\* the else branch
Generic == Candidate("generic", {}, 2)

\* (mutant: the last matching branch instead of the first)
SelectedLast(v, text_low) ==
    LET cs == Candidates(v)
        hits == {n \in 1..Len(cs) : \E w \in cs[n].keywords : Contains(text_low, w)}
    IN  IF hits = {} THEN Generic ELSE cs[CHOOSE n \in hits : \A m \in hits : m <= n]

\* The branch the chain takes: the first one a keyword of which is in text_low.
Selected(v, text_low) ==
    LET cs == Candidates(v)
        hits == {n \in 1..Len(cs) : \E w \in cs[n].keywords : Contains(text_low, w)}
    IN  IF hits = {} THEN Generic ELSE cs[Least(hits)]

\* (mutant: the exhaustion check left out of the router)
RouterNeverSkips(buffer) == FALSE

\* if budget.time_exhausted(buffer): the branch is skipped
RouterSkips(buffer) == time_exhausted(buffer)

\* len(q_text.split())
CountWords(t) ==
    Cardinality({i \in 1..Len(t) : ~IsSpace(Ch(t, i)) /\ (i = 1 \/ IsSpace(Ch(t, i - 1)))})

VagueKeywords == {"sales", "latency", "temperature", "wiki", "duckdb"}

\* app/main.py line 192
Vague(t) ==
    /\ CountWords(t) < VagueWords
    /\ ~(\E k \in VagueKeywords : Contains(Lower(t), k))

\* app/main.py lines 207-212: the keys the LLM suggests are appended to the
\* plan's own list; ok is the set of the keys the plan had before the loop.
RECURSIVE MergeKeys(_, _, _, _)
MergeKeys(keys, ok, hint, i) ==
    IF i > Len(hint) THEN keys
    ELSE IF IsStr(hint[i]) /\ hint[i].str \notin ok
         THEN MergeKeys(Append(keys, hint[i].str), ok, hint, i + 1)
         ELSE MergeKeys(keys, ok, hint, i + 1)

\* (mutant: the suggested keys replace the plan's keys)
MergeHintReplaces(cplan, hint) ==
    IF Len(hint) > 0
    THEN [cplan EXCEPT !.object_keys = MergeKeys(<<>>, {}, hint, 1)]
    ELSE cplan

MergeHint(cplan, hint) ==
    IF Len(hint) > 0
    THEN [cplan EXCEPT !.object_keys =
            MergeKeys(cplan.object_keys, {cplan.object_keys[n] : n \in 1..Len(cplan.object_keys)}, hint, 1)]
    ELSE cplan

\* (mutant: no except clause around the routing, the exception leaves handle_api)
OnHandlerRaisePropagates(msg) == [pc |-> "crashed", payload |-> Notes("no-op")]

\* except Exception as e: result_payload = {"notes": f"task-error: {e}"}
OnHandlerRaise(msg) == [pc |-> "shape", payload |-> Notes("task-error: " \o msg)]

\* ---- what a request can meet

\* Request texts: one for each branch of the router, in both variants.
ReqTexts ==
    { "High Court cases: json object keys: \"scatter_plot\", \"slope_33_10\"",
      "sales from wikipedia. json array of items, respond with 2",
      "sales json object keys: \"total_sales\", \"bar_chart\" bar",
      "ping latency json object keys: \"avg_latency_ms\", \"line_chart\"",
      "weather json object keys: \"avg_temperature\"",
      "duckdb on s3",
      "duckdb weather ping sales wikipedia high court",
      "json object keys: \"total\"",
      "see https://example.org json object",
      "please look at the attached data file and tell me what is in it json object keys: \"n\"" }

Image == PyStr("data:image/png;base64,iVBORw0KGgo=")

\* What a handler returns (the return statements of tasks/*.py; a nested
\* container is a PyList), and the texts of the exceptions it raises.
HandlerReturns(name) ==
    IF name = "highcourt"
    THEN { Notes("duckdb not available"),
           [k \in {"top_court_2019_2022", "slope_33_10", "corr_33_10", "points_33_10"} |->
              IF k = "top_court_2019_2022" THEN PyStr("33_10")
              ELSE IF k = "slope_33_10" THEN PyFloat(15)
              ELSE IF k = "corr_33_10" THEN PyFloat(0 - 3)
              ELSE PyList(2)] }
    ELSE IF name = "wiki"
    THEN { Notes("no url"), Notes("wiki error: No table found") }
    ELSE IF name = "sales"
    THEN { [k \in {"summary", "total_sales", "bar_chart"} |->
              IF k = "summary" THEN PyStr("sales analysis")
              ELSE IF k = "total_sales" THEN PyFloat(125) ELSE img]
           : img \in {PyNone, Image} }
    ELSE IF name = "network"
    THEN { [k \in {"summary", "avg_latency_ms", "line_chart"} |->
              IF k = "summary" THEN PyStr("network analysis")
              ELSE IF k = "avg_latency_ms" THEN PyFloat(125) ELSE img]
           : img \in {PyNone, Image} }
    ELSE IF name = "weather"
    THEN { [k \in {"summary", "avg_temperature"} |->
              IF k = "summary" THEN PyStr("weather analysis") ELSE PyFloat(215)] }
    ELSE IF name = "duckdb"
    THEN { [k \in {"duckdb"} |-> PyStr("[(1,)]")], [k \in {"duckdb_error"} |-> PyStr("no duckdb")] }
    ELSE { [k \in {"notes", "counts"} |->
              IF k = "notes" THEN PyStr("generic fallback") ELSE PyList(1)],
           [k \in {"notes", "counts", "summary", "plot_image"} |->
              IF k = "notes" THEN PyStr("generic fallback")
              ELSE IF k = "plot_image" THEN Image ELSE PyList(1)] }

ErrorTexts == {"boom", ""}

\* The object_keys of the dict ask_openai_json returns (<<>>: no such entry,
\* or no dict at all, or {} after an error).
PlanHints ==
    { <<>>,
      <<PyStr("total"), PyStr("extra")>>,
      <<PyStr("extra"), PyInt(3), PyStr("extra")>> }

\* What encode_fig gives the shaping step for the high court scatter plot;
\* PyStr("") when plotting or encoding raised (line 285-286).
EncodeOutcomes == {Image, PyStr("")}

\* ---- the steps of handle_api

\* lines 145-151: the plan is parsed, result_payload starts as the no-op note
ParsePlan ==
    /\ req_pc = "parse"
    /\ combined_plan' = parse_plan(q_text)
    /\ result_payload' = Notes("no-op")
    /\ req_pc' = "route"
    /\ UNCHANGED <<variant, q_text, route, route_check, consulted, invoked, raised,
                   shaped, response, notReqVars>>

\* The router selects a branch and asks the budget.
RouteStep ==
    /\ req_pc = "route"
    /\ LET c == Selected(variant, Lower(q_text)) IN
         /\ route' = c.name
         /\ route_check' = [made |-> TRUE, buffer |-> c.buffer,
                            exhausted |-> time_exhausted(c.buffer)]
         /\ IF RouterSkips(c.buffer)
            THEN /\ result_payload' = Notes("timeout-skip-" \o c.name)
                 /\ req_pc' = "shape"
            ELSE /\ UNCHANGED result_payload
                 /\ req_pc' = IF variant = "app" /\ c.name = "generic"
                              THEN "consult" ELSE "handler"
    /\ UNCHANGED <<variant, q_text, combined_plan, consulted, invoked, raised,
                   shaped, response, notReqVars>>

\* app/main.py lines 192-214: a vague request is sent to the LLM
ConsultLLM ==
    /\ req_pc = "consult"
    /\ IF Vague(q_text) /\ ~time_exhausted(ConsultBuffer)
       THEN /\ consulted' = TRUE
            /\ \E hint \in PlanHints : combined_plan' = MergeHint(combined_plan, hint)
       ELSE UNCHANGED <<consulted, combined_plan>>
    /\ req_pc' = "handler"
    /\ UNCHANGED <<variant, q_text, route, route_check, invoked, raised, result_payload,
                   shaped, response, notReqVars>>

\* The selected handler runs: it returns a dict or raises.
InvokeHandler ==
    /\ req_pc = "handler"
    /\ invoked' = Append(invoked, route)
    /\ \/ /\ \E payload \in HandlerReturns(route) : result_payload' = payload
          /\ req_pc' = "shape"
          /\ UNCHANGED raised
       \/ \E msg \in ErrorTexts :
            /\ raised' = [happened |-> TRUE, msg |-> msg]
            /\ result_payload' = OnHandlerRaise(msg).payload
            /\ req_pc' = OnHandlerRaise(msg).pc
    /\ UNCHANGED <<variant, q_text, combined_plan, route, route_check, consulted,
                   shaped, response, notReqVars>>

\* the keys of object_keys for which line 270 renders the scatter plot
ScatterKeys(v, cplan, payload) ==
    IF v = "app"
    THEN {cplan.object_keys[n] : n \in
            {m \in 1..Len(cplan.object_keys) :
               NeedsScatter(payload, cplan.object_keys[m],
                            HighCourtText(payload, cplan.object_keys[m],
                                          Resolved(cplan, payload, cplan.object_keys[m])))}}
    ELSE {}

\* shaped, for the outcomes images of the encoder calls
Shaped(v, cplan, payload, images) ==
    IF cplan.response_type = "array"
    THEN [kind |-> "array",
          arr |-> [n \in 1..Max(0, cplan.array_len) |-> PyStr("")],
          obj |-> EmptyDict,
          task |-> payload]
    ELSE [kind |-> "object",
          arr |-> <<>>,
          obj |-> [k \in {cplan.object_keys[n] : n \in 1..Len(cplan.object_keys)} |->
                     ShapedValue(v, cplan, payload, k,
                                 IF k \in DOMAIN images THEN images[k] ELSE PyStr(""))],
          task |-> EmptyDict]

\* lines 219-301
ShapeStep ==
    /\ req_pc = "shape"
    /\ \E images \in [ScatterKeys(variant, combined_plan, result_payload) -> EncodeOutcomes] :
         shaped' = Shaped(variant, combined_plan, result_payload, images)
    /\ req_pc' = "respond"
    /\ UNCHANGED <<variant, q_text, combined_plan, route, route_check, consulted, invoked,
                   raised, result_payload, response, notReqVars>>

\* lines 303-321
Respond ==
    /\ req_pc = "respond"
    /\ response' = [status |-> "ok", elapsed_sec |-> elapsed_seconds,
                    remaining_sec |-> remaining_seconds]
    /\ req_pc' = "done"
    /\ UNCHANGED <<variant, q_text, combined_plan, route, route_check, consulted, invoked,
                   raised, result_payload, shaped, notReqVars>>

\* Time passes while the request is handled.
RequestTick ==
    /\ req_pc \in {"parse", "route", "consult", "handler", "shape", "respond"}
    /\ \E d \in 1..2 :
         /\ monotonic + d <= start_monotonic + total_seconds + MaxLate
         /\ monotonic' = monotonic + d
    /\ UNCHANGED <<total_seconds, start_monotonic, prevRemaining, lastRemaining, lastCheck,
                   notTimerVars>>

\* A request on one of texts, from the creation of its budget (main.py line 32).
RequestStart(texts) ==
    /\ variant \in {"app", "daa"}
    /\ q_text \in texts
    /\ combined_plan = NoPlan /\ req_pc = "parse"
    /\ route = "" /\ route_check = NoDecision /\ consulted = FALSE /\ invoked = <<>>
    /\ raised = NoRaise /\ result_payload = EmptyDict /\ shaped = NoShaped
    /\ response = NoResponse
    /\ total_seconds = Budget /\ start_monotonic = 0 /\ monotonic = 0
    /\ prevRemaining = NoRead /\ lastRemaining = NoRead /\ lastCheck = NoCheck

RequestInit == RequestStart(ReqTexts)

RequestNext ==
    ParsePlan \/ RouteStep \/ ConsultLLM \/ InvokeHandler \/ ShapeStep \/ Respond \/ RequestTick

\* ---- texts for the plan parser: a lead, a keys line and a chart request

ObjectLeads == {"Return a json object with ", "Please reply as a JSON object.\n"}

Leads ==
    ObjectLeads \cup
    { "Respond with a JSON array of strings. ",
      "Give a json array of items, respond with 3 items. ",
      "Answer in plain text. " }

SalesKeyParts == {"keys: \"total_sales\", \"bar_chart\". ", "keys: 'total_sales', 'bar_chart'\n"}

KeyParts ==
    SalesKeyParts \cup
    { "key: \"avg_latency_ms\", \"line_chart\", \"avg_latency_ms\"\n", "" }

BlueBarParts ==
    {"Plot a bar chart in blue, under 50000 bytes.", "Draw a blue bar chart under 50,000 bytes."}

ChartParts ==
    BlueBarParts \cup
    { "Draw a red scatter plot under 80kb as raw base64.",
      "Show a line chart and a histogram in green.",
      "" }

\* the counts of the array requests
CountTexts == {"0", "1", "5", "12", "250"}

ExactlyText(n) == "Respond with a json array of exactly " \o n \o " items."

\* texts about the byte limit
LimitTexts ==
    { "Plot a bar chart under 1000000 bytes.",
      "Plot a bar chart under 1000050 bytes.",
      "Plot a bar chart under 00050 bytes.",
      "Plot a bar chart under 5000 bytes.",
      "Return a json object with 3 keys and a bar chart.",
      "Draw a scatter plot under 2 kb." }

\* empty and whitespace-only texts
BlankTexts == {"", " \n\t "}

\* texts about chart keywords and the colours around them
ChartTexts ==
    { "Draw a line chart.",
      "Draw a linechart of sales.",
      "Show a histogram.",
      "Show a purple hist of ages.",
      "Draw a green scatter plot.",
      "Make a scatter plot.",
      "Plot a red bar green.",
      "Plot a bar with one two three purple.",
      "Draw bars in black and a line plot." }

\* the byte counts and kilobyte counts a text states
ByteCounts == {"99", "5000", "50000", "123,456", "1000000"}
KiloCounts == {"2", "80"}

UnderBytesText(n) == "Keep the image under " \o n \o " bytes."
UnderKiloText(k) == "Keep the image under " \o k \o "kb."

\* two limits in one text: the kilobyte one stands first
TwoLimitsText == "Draw a bar chart below 80kb, at most 50000 bytes."

\* texts about the encoding mode
ModeTexts ==
    { "Return the image as a data URI.",
      "Return raw base64.",
      "Return a Data URI, not raw base64.",
      "Start with data:image/png;base64, no raw base64.",
      "Give base64 png.",
      "Give base64 only.",
      "Give base64 pngs.",
      "Give the image in base64.",
      "Plot a chart." }

PlanTexts ==
    {lead \o keys \o chart : lead \in Leads, keys \in KeyParts, chart \in ChartParts}
    \cup {ExactlyText(n) : n \in CountTexts}
    \cup LimitTexts
    \cup BlankTexts
    \cup ChartTexts
    \cup {UnderBytesText(n) : n \in ByteCounts}
    \cup {UnderKiloText(k) : k \in KiloCounts}
    \cup {TwoLimitsText}
    \cup ModeTexts

\* ---- texts and task results for the shaping step

ShapeTexts ==
    { "json object keys: \"total_sales\", \"bar_chart\" bar",
      "json object keys: \"avg_latency_ms\", \"line_chart\" linechart",
      "json object keys: \"avg_temperature\", \"scatter_plot\" scatter",
      "json object keys: \"Total_Sales\", \"Bar_Chart\", \"other\"",
      "json array of items, respond with 2 items",
      "json array of strings" }

Values ==
    { PyNone, PyInt(3), PyFloat(125), PyBool(TRUE), PyStr("12.5"), PyStr("abc"),
      PyStr(""), PyStr(" 7 "), PyList(2), Image }

PayloadKeys ==
    { "total_sales", "avg_latency_ms", "avg_temperature", "bar_chart", "scatter_plot",
      "line_chart", "plot_image", "points_33_10", "Total_Sales" }

Payloads ==
    {EmptyDict}
    \cup {[k \in {key} |-> val] : key \in PayloadKeys, val \in Values}
    \cup {[k \in {"bar_chart", "plot_image"} |-> IF k = "bar_chart" THEN PyNone ELSE val] :
            val \in Values}

\* The handler has returned payload for a request on one of texts.
HandlerReturned(texts, payloads) ==
    /\ variant \in {"app", "daa"}
    /\ q_text \in texts
    /\ combined_plan = parse_plan(q_text) /\ req_pc = "shape"
    /\ route = Selected(variant, Lower(q_text)).name
    /\ route_check = [made |-> TRUE, buffer |-> Selected(variant, Lower(q_text)).buffer,
                      exhausted |-> FALSE]
    /\ consulted = FALSE /\ invoked = <<route>>
    /\ raised = NoRaise /\ result_payload \in payloads /\ shaped = NoShaped
    /\ response = NoResponse
    /\ total_seconds = Budget /\ start_monotonic = 0 /\ monotonic = 0
    /\ prevRemaining = NoRead /\ lastRemaining = NoRead /\ lastCheck = NoCheck

(***************************************************************************)
(* Specifications.  Each one runs one part of the program from the states  *)
(* its construction leaves; the variables of the other parts stay idle.    *)
(***************************************************************************)

\* The state of the timer variables while no budget is modelled.
TimerIdle ==
    /\ total_seconds = 0 /\ start_monotonic = 0 /\ monotonic = 0
    /\ prevRemaining = NoRead /\ lastRemaining = NoRead /\ lastCheck = NoCheck

\* One TimeBudget read while the clock advances.
InitTimer == TimerInit /\ EncIdle /\ ReqIdle

SpecTimer == InitTimer /\ [][TimerNext]_vars

\* One call of the encoder.
InitEncoder == EncoderInit /\ TimerIdle /\ ReqIdle

\* The interpreter runs a started call on: no step of it waits for ever.
SpecEncoderFair == InitEncoder /\ [][EncoderNext]_vars /\ WF_vars(EncoderNext)

SpecEncoder == InitEncoder /\ [][EncoderNext]_vars

\* The plan parser on every text of PlanTexts.
InitPlan == RequestStart(PlanTexts) /\ EncIdle

NextPlan == ParsePlan

SpecPlan == InitPlan /\ [][NextPlan]_vars

\* A handler that draws a chart passes the plan's encoding mode to encode_fig
\* (tasks/generic.py line 90 and lines 32, 49, 65; main.py lines 278-279):
\* mode = "raw_base64" if plan.get("raw_base64_images") else "data_uri".
CallEncodeFig ==
    /\ req_pc = "route"
    /\ enc_pc = "idle"
    /\ entry' = "encode_fig"
    /\ mime' = "image/png"
    /\ mode' = IF combined_plan.raw_base64_images THEN "raw_base64" ELSE "data_uri"
    /\ max_bytes' \in 0..MaxBytes
    /\ min_width' = DefaultMinWidth
    /\ min_height' = DefaultMinHeight
    /\ fig_size' \in FigSizes
    /\ tiny_len' \in 1..MaxTiny
    /\ enc_pc' = "start"
    /\ UNCHANGED <<img_bytes, width, height, quality, best, attempts, data, encoded,
                   produced, encodings, timerVars, reqVars>>

\* The plan of a text about the encoding mode, then one chart encoded under it.
InitMode == RequestStart(ModeTexts) /\ EncIdle

NextMode ==
    ParsePlan \/ CallEncodeFig \/ Baseline \/ LoopStep \/ FinalAttempt \/ EncodeFigReturn \/ EncRaise

SpecMode == InitMode /\ [][NextMode]_vars

\* The shaping step on every task result of Payloads.
InitShape == HandlerReturned(ShapeTexts, Payloads) /\ EncIdle

NextShape == ShapeStep \/ Respond

SpecShape == InitShape /\ [][NextShape]_vars

\* One request through handle_api.
Init == RequestInit /\ EncIdle

Next == RequestNext

Spec == Init /\ [][Next]_vars

(***************************************************************************)
(* The claims.                                                             *)
(***************************************************************************)

\* C1: for every byte_limit at least the placeholder's size and every sequence
\* of sizes the render and the re-encodes produce, the image payload encode_fig
\* returns has length <= byte_limit.
C1_EncodeFigWithinLimit ==
    (enc_pc = "done" /\ entry = "encode_fig" /\ max_bytes >= tiny_len) =>
        encoded.payload.len <= max_bytes

\* C1 witness: encode_fig returned after every attempt was over the limit.
C1_Witness ==
    /\ enc_pc = "done" /\ entry = "encode_fig" /\ max_bytes >= tiny_len
    /\ img_bytes.len > max_bytes /\ best.len > max_bytes /\ data.len > max_bytes
    /\ attempts > 0

\* C10: when the baseline render is already <= byte_limit, the encoder returns
\* exactly the baseline render's bytes (no resize, no re-encode, no placeholder).
C10_UnderLimitBaselineReturnedAsIs ==
    (enc_pc = "done" /\ img_bytes.len <= max_bytes) =>
        /\ encoded.payload = img_bytes
        /\ img_bytes.src = "baseline"
        /\ attempts = 0 /\ width = 0 /\ height = 0 /\ best = NoBytes

\* C10 witness: a call returned with a baseline render under the limit.
C10_Witness ==
    /\ enc_pc = "done" /\ entry = "encode_fig"
    /\ img_bytes.src = "baseline" /\ img_bytes.len <= max_bytes
    /\ img_bytes.len < max_bytes

\* C3: for every duration d >= 0 and buffer b >= 0, time_exhausted(b) is true
\* exactly when d - elapsed <= b, elapsed being the time since the budget
\* was created.
C3_ExhaustedIffRemainingAtMostBuffer ==
    (lastCheck.made /\ ~lastCheck.clock_failed /\ lastCheck.buffer >= 0 /\ total_seconds >= 0) =>
        (lastCheck.result <=>
            (total_seconds - (lastCheck.at - start_monotonic) <= lastCheck.buffer))

\* C3 witness: a check with a positive buffer answered "exhausted" while time was
\* still left.
C3_Witness ==
    /\ lastCheck.made /\ ~lastCheck.clock_failed
    /\ lastCheck.buffer > 0
    /\ lastCheck.result
    /\ total_seconds - (lastCheck.at - start_monotonic) > 0

\* C4: over any sequence of reads of one budget while the clock advances,
\* remaining_seconds() is never negative and never larger than an earlier read.
C4_RemainingNonNegativeNonIncreasing ==
    /\ lastRemaining # NoRead => lastRemaining >= 0
    /\ (prevRemaining # NoRead /\ lastRemaining # NoRead) => lastRemaining <= prevRemaining

\* C4 witness: two reads, the second after the deadline has passed, the first
\* before it.
C4_Witness ==
    /\ prevRemaining # NoRead
    /\ lastRemaining # NoRead
    /\ prevRemaining > 0
    /\ lastRemaining = 0
    /\ monotonic > deadline_monotonic

\* C2: when the exhaustion check of the first candidate whose keywords match
\* the text is true, the router's result is the marker 'timeout-skip-<candidate>'
\* naming that candidate, and no handler at all is invoked for the request.
C2_ExhaustedCandidateSkipped ==
    (route_check.made /\ route_check.exhausted) =>
        /\ result_payload = Notes("timeout-skip-" \o route)
        /\ invoked = <<>>
        /\ ~consulted
        /\ q_text = "sales from wikipedia. json array of items, respond with 2" => route = "wiki"
        /\ q_text = "see https://example.org json object" =>
              route = (IF variant = "daa" THEN "wiki" ELSE "generic")
        /\ q_text = "duckdb on s3" => route = "duckdb"

\* C2 witness: a request whose text names two candidates was answered after the
\* first one's check said "exhausted".
C2_Witness ==
    /\ req_pc = "done"
    /\ q_text = "sales from wikipedia. json array of items, respond with 2"
    /\ route_check.made /\ route_check.exhausted
    /\ result_payload = Notes("timeout-skip-wiki")
    /\ invoked = <<>>

\* C6: for a text that asks for a json object with a 'keys:' line listing the
\* quoted names total_sales and bar_chart and then asks for a bar chart in blue
\* under 50000 bytes, the plan has shape object, object_keys exactly
\* <<total_sales, bar_chart>>, exactly one chart spec (slot_key bar_chart, type
\* bar, color blue, byte limit 50000) and encoding mode data_uri.
C6_SalesBarChartPlan ==
    (req_pc = "route" /\ q_text \in {lead \o "keys: \"total_sales\", \"bar_chart\". " \o chart :
                                        lead \in ObjectLeads, chart \in BlueBarParts}) =>
        /\ combined_plan.response_type = "object"
        /\ combined_plan.object_keys = <<"total_sales", "bar_chart">>
        /\ combined_plan.charts =
              << [slot_key |-> "bar_chart", type |-> "bar", color |-> "blue", max_bytes |-> 50000] >>
        /\ combined_plan.raw_base64_images = FALSE

\* C6 witness: the text of the scenario has been parsed.
C6_Witness ==
    /\ req_pc = "route"
    /\ q_text = "Return a json object with keys: \"total_sales\", \"bar_chart\". Plot a bar chart in blue, under 50000 bytes."
    /\ Len(combined_plan.charts) = 1
    /\ Len(combined_plan.object_keys) = 2

\* C7: for every count N, a text that asks to respond with 'a json array of
\* exactly N items' yields a plan with shape array, array_length N and empty
\* object_keys.
C7_ExactlyNItemsGivesArray ==
    \A n \in CountTexts :
        (req_pc = "route" /\ q_text = ExactlyText(n)) =>
            /\ combined_plan.response_type = "array"
            /\ combined_plan.array_len = IntOf(n)
            /\ combined_plan.object_keys = <<>>

\* C8: after object shaping, each requested numeric-intent key maps to a number,
\* the string "12.5" being parsed to 12.5 and a missing or unparsable value
\* becoming 0.0; each requested image-intent key maps to a string, a non-string
\* value being replaced by the empty string.  (Numbers are in tenths.)
C8_DeclaredTypesHold ==
    (req_pc \in {"respond", "done"} /\ shaped.kind = "object") =>
        \A k \in DOMAIN shaped.obj :
            LET given == k \in DOMAIN result_payload
                v == IF given THEN result_payload[k] ELSE PyNone
                out == shaped.obj[k]
            IN  /\ Lower(k) \in NumericKeys =>
                     /\ out.kind \in {"int", "float", "bool"}
                     /\ v.kind \in {"int", "float", "bool"} => out = v
                     /\ v = PyStr("12.5") => out = PyFloat(125)
                     /\ v = PyStr(" 7 ") => out = PyFloat(70)
                     /\ (~given \/ v \in {PyNone, PyStr("abc"), PyStr(""), PyList(2), Image}) =>
                            out = PyFloat(0)
                /\ Lower(k) \in ImageKeys =>
                     /\ out.kind = "str"
                     /\ v.kind = "str" => out = v
                     /\ v.kind \notin {"str", "none"} => out = PyStr("")

\* C8 witness: object_keys holds avg_latency_ms, the task result gave it as the
\* string "12.5", and the shaped object holds the float 12.5.
C8_Witness ==
    /\ req_pc = "done" /\ shaped.kind = "object"
    /\ combined_plan.object_keys = <<"avg_latency_ms", "line_chart">>
    /\ result_payload = [k \in {"avg_latency_ms"} |-> PyStr("12.5")]
    /\ shaped.obj["avg_latency_ms"] = PyFloat(125)
    /\ shaped.obj["line_chart"] = PyStr("")

\* C9: if the invoked handler raises, the result is the tagged error
\* 'task-error: <exception text>', request handling goes on to shaping and to a
\* normal response, and the exception never leaves handle_api.
C9_HandlerErrorBecomesTaggedResult ==
    /\ req_pc # "crashed"
    /\ raised.happened =>
          /\ result_payload = Notes("task-error: " \o raised.msg)
          /\ req_pc \in {"shape", "respond", "done"}
          /\ req_pc \in {"respond", "done"} =>
                /\ shaped.kind \in {"array", "object"}
                /\ shaped.kind = "array" => shaped.task = result_payload
          /\ req_pc = "done" => response.status = "ok"

\* C9 witness: a handler raised "boom" and the request was answered.
C9_Witness ==
    /\ req_pc = "done"
    /\ raised.happened /\ raised.msg = "boom"
    /\ invoked = <<"sales">>
    /\ result_payload = Notes("task-error: boom")
    /\ shaped.kind = "object"
    /\ response.status = "ok"

\* C11 (as stated): for every byte limit of at least one byte and every input,
\* the placeholder case included, the image encode_fig returns has length
\* <= byte_limit.
C11_WithinLimitUnconditionally ==
    (enc_pc = "done" /\ entry = "encode_fig" /\ max_bytes >= 1) =>
        encoded.payload.len <= max_bytes

\* C11 (amended): the image encode_fig returns has length <= byte_limit or is
\* the 1x1 placeholder; it is over the limit only when the placeholder itself is.
C11_WithinLimitOrPlaceholder ==
    (enc_pc = "done" /\ entry = "encode_fig") =>
        /\ encoded.payload.len <= max_bytes \/ encoded.payload = _tiny_fallback_image_bytes
        /\ encoded.payload.len > max_bytes => tiny_len > max_bytes

\* C11 witness: encode_fig returned the placeholder, and the limit is smaller
\* than the placeholder.
C11_Witness ==
    /\ enc_pc = "done" /\ entry = "encode_fig" /\ max_bytes >= 1
    /\ encoded.payload = _tiny_fallback_image_bytes
    /\ encoded.payload.len > max_bytes

\* C19: encode_fig returns an encoded-image string on every call, also when an
\* internal step (figure save, image open, resize, re-encode) fails; no
\* exception leaves the encoder.
C19_NoExceptionLeavesEncodeFig ==
    entry = "encode_fig" => enc_pc # "raised"

\* C20: encode_image_under_limit returns a data URI whose image payload is
\* <= max_bytes, for every figure and every max_bytes.
C20_EncodeImageWithinLimit ==
    (enc_pc = "done" /\ entry = "encode_image_under_limit") =>
        /\ encoded.form = "data_uri"
        /\ encoded.payload.len <= max_bytes

\* True of a text with neither an array phrase nor an object phrase.
NoShapePhrase(text) ==
    /\ ~ARRAY_HINT_RE_search(Strip(text))
    /\ ~OBJECT_HINT_RE_search(Strip(text))

\* C12: for a request text with neither an array phrase nor an object phrase,
\* the final result is the task result mapping itself: every field the handler
\* returned is present with the same value, nothing added or dropped.
C12_UnknownShapePassesThrough ==
    (req_pc \in {"respond", "done"} /\ NoShapePhrase(q_text)) =>
        /\ shaped.kind = "object"
        /\ shaped.obj = result_payload

\* C13: the shaped result has exactly the structure the plan names: for shape
\* array a sequence of exactly array_len empty strings (none when no length was
\* detected) with the task result beside it; for shape object a mapping whose
\* key set is exactly object_keys, every value non-null.
C13_ShapedStructure ==
    req_pc \in {"respond", "done"} =>
        /\ combined_plan.response_type = "array" =>
              /\ shaped.kind = "array"
              /\ Len(shaped.arr) =
                    (IF combined_plan.array_len = NoneInt THEN 0 ELSE combined_plan.array_len)
              /\ \A n \in 1..Len(shaped.arr) : shaped.arr[n] = PyStr("")
              /\ shaped.task = result_payload
        /\ combined_plan.response_type # "array" =>
              /\ shaped.kind = "object"
              /\ DOMAIN shaped.obj =
                    {combined_plan.object_keys[n] : n \in 1..Len(combined_plan.object_keys)}
              /\ \A k \in DOMAIN shaped.obj : shaped.obj[k] # PyNone

\* C13 witness: a requested key the task result gave as None got the default,
\* beside a key the task result did not name.
C13_Witness ==
    /\ req_pc = "done" /\ shaped.kind = "object"
    /\ combined_plan.object_keys = <<"Total_Sales", "Bar_Chart", "other">>
    /\ result_payload = [k \in {"Total_Sales"} |-> PyNone]
    /\ shaped.obj["other"] = PyStr("N/A")
    /\ shaped.obj["Bar_Chart"] = PyStr("")

\* C14: at every point of request handling, from plan creation through any
\* plan-hint merge to shaping, the plan's object_keys holds no string twice.
C14_ObjectKeysHaveNoDuplicates ==
    \A i, j \in 1..Len(combined_plan.object_keys) :
        i # j => combined_plan.object_keys[i] # combined_plan.object_keys[j]

\* C15 (as stated): no step after the creation of the plan changes it, so the
\* plan used for shaping and reported in the response equals parse_plan(text).
C15_PlanIsImmutable ==
    req_pc \in {"route", "consult", "handler", "shape", "respond", "done"} =>
        combined_plan = parse_plan(q_text)

\* sequence a is an initial part of sequence b
IsPrefix(a, b) == Len(a) <= Len(b) /\ SubSeq(b, 1, Len(a)) = a

\* C15 (amended): after its creation the plan's response_type, array_len, charts
\* and raw_base64_images never change; object_keys changes only in the step that
\* consults the LLM, which appends to it; a request that does not consult the
\* LLM never changes its plan.
C15_PlanChangesOnlyByAppendedKeys ==
    [][ /\ (req_pc = "parse" /\ req_pc' # "parse") => combined_plan' = parse_plan(q_text)
        /\ req_pc # "parse" =>
              /\ combined_plan'.response_type = combined_plan.response_type
              /\ combined_plan'.array_len = combined_plan.array_len
              /\ combined_plan'.charts = combined_plan.charts
              /\ combined_plan'.raw_base64_images = combined_plan.raw_base64_images
              /\ IsPrefix(combined_plan.object_keys, combined_plan'.object_keys)
              /\ combined_plan' # combined_plan =>
                    (variant = "app" /\ req_pc = "consult" /\ consulted') ]_vars

\* C15 witness: the LLM was consulted and the plan holds a key the text did
\* not name.
C15_Witness ==
    /\ req_pc = "done" /\ consulted
    /\ q_text = "json object keys: \"total\""
    /\ combined_plan.object_keys = <<"total", "extra">>
    /\ DOMAIN shaped.obj = {"total", "extra"}

\* True of a text that names no size: neither "bytes" nor a kilobyte unit.
NoLimitStated(text) ==
    /\ ~Contains(Lower(text), "bytes")
    /\ ~Contains(Lower(text), "kb")
    /\ ~Contains(Lower(text), "kib")

\* C16: for every text, every byte limit carried by the plan (the global limit
\* and the max_bytes of each chart spec) is a positive integer, and is 100000
\* when the text states no limit.
C16_ByteLimitsPositiveWithDefault ==
    req_pc = "route" =>
        LET global == _extract_global_max_bytes(Strip(q_text))
            limits == {global} \cup
                      {combined_plan.charts[n].max_bytes : n \in 1..Len(combined_plan.charts)}
        IN  /\ \A x \in limits : x > 0
            /\ NoLimitStated(q_text) => limits = {100000}

\* The order of the router's candidates.
FixedOrder == <<"highcourt", "wiki", "sales", "network", "weather", "duckdb">>

\* Candidate name has a keyword in the text (never, for a name the variant's
\* router does not have).
Matches(v, name, text) ==
    \E n \in 1..Len(Candidates(v)) :
        /\ Candidates(v)[n].name = name
        /\ \E w \in Candidates(v)[n].keywords : Contains(Lower(text), w)

\* C17: exactly one candidate is selected per request and at most one task
\* handler is invoked; the selected candidate is the first one, in the order
\* high court, wikipedia, sales, network, weather, duckdb, whose keywords occur
\* in the text, and the generic handler is selected only when none matches.
C17_FirstMatchingCandidateOnly ==
    /\ [](/\ Len(invoked) <= 1
          /\ invoked # <<>> => invoked = <<route>>
          /\ req_pc \in {"parse", "route"} <=> route = "")
    /\ [][ /\ route # "" => route' = route
           /\ route' # route =>
                 LET hits == {n \in 1..Len(FixedOrder) : Matches(variant, FixedOrder[n], q_text)}
                 IN  /\ hits = {} <=> route' = "generic"
                     /\ hits # {} => /\ route' = FixedOrder[Least(hits)]
           /\ (route' # route /\ variant = "app"
               /\ q_text = "duckdb weather ping sales wikipedia high court") =>
                 route' = "highcourt" ]_vars

\* C17 witness: a text that names every candidate, in the reverse order, was
\* routed to the high court handler alone.
C17_Witness ==
    /\ req_pc = "done" /\ variant = "app"
    /\ q_text = "duckdb weather ping sales wikipedia high court"
    /\ route = "highcourt"
    /\ invoked = <<"highcourt">>

\* C18: if reading the system clock fails, the time budget reports itself as
\* exhausted for every buffer instead of raising.
C18_ClockFailureMeansExhausted ==
    (lastCheck.made /\ lastCheck.clock_failed) =>
        /\ ~lastCheck.raised
        /\ lastCheck.result

\* C21: when no attempt meets the limit, the bytes the core encoder returns
\* are not larger than any candidate of the call (the baseline render, every
\* loop output, the final attempt); the final attempt is returned only when it
\* is not larger than the smallest candidate before it.
C21_ReturnedNotLargerThanAnyCandidate ==
    (enc_pc \in {"returned", "done"} /\ \A n \in produced : n > max_bytes) =>
        /\ \A n \in produced : data.len <= n
        /\ data.src = "final" => data.len <= best.len

\* the best-seen candidate of the loop came back in place of a larger final attempt
C21_Witness ==
    /\ enc_pc = "returned"
    /\ \A n \in produced : n > max_bytes
    /\ data.src = "loop"
    /\ data.len < img_bytes.len
    /\ \E n \in produced : n > data.len

\* C29: every encoder call ends, after at most one baseline render, 10 loop
\* iterations, one final attempt and one placeholder (13 encodings); the loop
\* runs no iteration once a candidate fits or both dimensions are at the floor.
C29_BoundedEncodingsAndTermination ==
    /\ [](attempts <= 10 /\ encodings <= 13)
    /\ [](enc_pc = "loop" => \A n \in produced : n > max_bytes)
    /\ [][(enc_pc = "loop" /\ width = min_width /\ height = min_height) =>
             encodings' = encodings]_vars
    /\ <>(enc_pc \in {"done", "raised"})

\* a call that used every encoding it may: baseline, 10 iterations, final, placeholder
C29_Witness ==
    /\ enc_pc = "done"
    /\ attempts = 10
    /\ encodings = 13

\* C30: in every iteration of the degradation loop the working image's width
\* and height are int(0.85 x previous) clamped to the floor, not larger than
\* before the iteration and not below min_width and min_height.
C30_DimensionsShrinkToFloor ==
    [][(enc_pc = "loop" /\ attempts' = attempts + 1) =>
          /\ width' = Max(min_width, Shrink(width))
          /\ height' = Max(min_height, Shrink(height))
          /\ width' <= width /\ height' <= height
          /\ width' >= min_width /\ height' >= min_height]_vars

\* C22: the plan's response shape is array when an array phrase matches (also
\* when an object phrase matches too), object when no array phrase matches and
\* an object phrase does, and unknown in every other case, empty and
\* whitespace-only texts included.
C22_ShapeArrayObjectOrUnknown ==
    req_pc = "route" =>
        combined_plan.response_type =
            IF ARRAY_HINT_RE_search(Strip(q_text)) THEN "array"
            ELSE IF OBJECT_HINT_RE_search(Strip(q_text)) THEN "object"
            ELSE "unknown"

\* The chart type a keyword token names, "" for any other token.
KeywordType(tok) ==
    IF tok = "bar" THEN "bar"
    ELSE IF tok = "line" THEN "line"
    ELSE IF tok \in {"histogram", "hist"} THEN "histogram"
    ELSE IF tok = "scatter" THEN "scatter"
    ELSE ""

\* The default slot key of a chart type.
SlotOfType(type) ==
    IF type = "bar" THEN "bar_chart"
    ELSE IF type = "line" THEN "line_chart"
    ELSE IF type = "histogram" THEN "histogram"
    ELSE IF type = "scatter" THEN "scatter_plot"
    ELSE ""

\* C23: every occurrence of a chart-type keyword (bar; line or 'line chart';
\* histogram or hist; scatter) yields a chart spec whose type is one of bar,
\* line, scatter, histogram and whose slot_key is the type's default; a text
\* containing 'line chart' yields a spec with slot_key line_chart and type line.
C23_KeywordsYieldTypedSpecs ==
    req_pc = "route" =>
        LET tokens == Tokens(Lower(Strip(q_text)))
            charts == combined_plan.charts
        IN  /\ \A n \in 1..Len(charts) :
                  /\ charts[n].type \in {"bar", "line", "scatter", "histogram"}
                  /\ charts[n].slot_key = SlotOfType(charts[n].type)
            /\ \A i \in 1..Len(tokens) :
                  KeywordType(tokens[i]) # "" =>
                      \E n \in 1..Len(charts) : charts[n].type = KeywordType(tokens[i])
            /\ Contains(Lower(q_text), "line chart") =>
                  \E n \in 1..Len(charts) :
                      charts[n].slot_key = "line_chart" /\ charts[n].type = "line"

\* The default colour of a chart type, as the specification documents it.
DefaultColorOfType(type) ==
    IF type = "bar" THEN "blue"
    ELSE IF type \in {"line", "scatter"} THEN "red"
    ELSE "orange"

\* The distances 1..3 from token i at which a colour name stands.
ColorDistances(tokens, i) ==
    {d \in 1..3 : \E j \in {i - d, i + d} :
                     j >= 1 /\ j <= Len(tokens) /\ COLOR_RE_fullmatch(tokens[j])}

\* Colour c is what the keyword at token i should get: a nearest colour name
\* within 3 tokens, or the default of the type when there is none.
ColorResolved(tokens, i, type, c) ==
    IF ColorDistances(tokens, i) = {} THEN c = DefaultColorOfType(type)
    ELSE LET d == Least(ColorDistances(tokens, i)) IN
         \E j \in {i - d, i + d} : j >= 1 /\ j <= Len(tokens) /\ tokens[j] = c

\* The tokens of the text a spec of this type can come from.
KeywordTokens(tokens, type) ==
    {i \in 1..Len(tokens) :
        \/ type = "bar" /\ BAR_RE_fullmatch(tokens[i])
        \/ type = "line" /\ LINE_RE_fullmatch(tokens[i])
        \/ type = "hist" /\ HIST_RE_fullmatch(tokens[i])
        \/ type = "scatter" /\ SCATTER_RE_fullmatch(tokens[i])}

\* C24: for every chart spec of every type, the colour is the named colour
\* within 3 tokens of the chart keyword when there is one (the nearest first),
\* and otherwise the default: blue for bar, red for line and scatter, orange
\* for histogram.
C24_ColorNearKeywordOrDefault ==
    req_pc = "route" =>
        LET tokens == Tokens(Lower(Strip(q_text)))
            charts == combined_plan.charts
        IN  \A n \in 1..Len(charts) :
                \E i \in KeywordTokens(tokens, charts[n].type) :
                    ColorResolved(tokens, i,
                                  IF charts[n].type = "hist" THEN "histogram" ELSE charts[n].type,
                                  charts[n].color)

\* The same for the bar, line and histogram specs only.
C24_ExceptScatter ==
    req_pc = "route" =>
        LET tokens == Tokens(Lower(Strip(q_text)))
            charts == combined_plan.charts
        IN  \A n \in 1..Len(charts) :
                charts[n].type # "scatter" =>
                    \E i \in KeywordTokens(tokens, charts[n].type) :
                        ColorResolved(tokens, i,
                                      IF charts[n].type = "hist" THEN "histogram" ELSE charts[n].type,
                                      charts[n].color)

\* C25: a literal byte count N followed by 'bytes', or a number K with a
\* kilobyte suffix, makes the plan's byte limit the value of the first such
\* occurrence (N, resp. K x 1000), for every N and K; every chart spec carries
\* the same limit; with no such occurrence the limit is 100000.
C25_FirstStatedLimitWins ==
    req_pc = "route" =>
        LET limit == _extract_global_max_bytes(Strip(q_text))
            charts == combined_plan.charts
        IN  /\ \A n \in ByteCounts :
                  q_text = UnderBytesText(n) => limit = IntOf(WithoutCommas(n, 1))
            /\ \A k \in KiloCounts :
                  q_text = UnderKiloText(k) => limit = IntOf(k) * 1000
            /\ q_text = TwoLimitsText => limit = 80000
            /\ \A i \in 1..Len(charts) : charts[i].max_bytes = limit
            /\ NoLimitStated(q_text) => limit = 100000

\* The text asks for a data URI, or shows a data-URI prefix.
DataUriSignal(text) ==
    \/ Contains(Lower(text), "data uri")
    \/ Contains(Lower(text), "data:image/png;base64")

\* The text asks for raw base64, or for base64 png / base64 only.
RawBase64Signal(text) ==
    \/ Contains(Lower(text), "raw base64")
    \/ Contains(Lower(text), "base64 png")
    \/ Contains(Lower(text), "base64 only")

\* C26: the encoding mode is data_uri whenever the text has a data-URI signal,
\* also when it asks for raw base64 too; raw_base64 only without a data-URI
\* signal and with a request for 'raw base64' or 'base64 png/only'; data_uri
\* with no signal.  The encoder returns the bare base64 text exactly when the
\* mode is raw_base64, and a 'data:<mime>;base64,' prefixed string otherwise.
C26_ModeFromTextAndEncoderForm ==
    /\ (req_pc = "route" /\ enc_pc = "idle") =>
          combined_plan.raw_base64_images =
              (~DataUriSignal(q_text) /\ RawBase64Signal(q_text))
    /\ enc_pc = "done" =>
          /\ encoded.form = IF ~DataUriSignal(q_text) /\ RawBase64Signal(q_text)
                            THEN "raw_base64" ELSE "data_uri"
          /\ encoded.form = "raw_base64" <=> mode = "raw_base64"
          /\ encoded.mime = mime

\* a text with both signals: the chart came back as a data URI
C26_Witness ==
    /\ enc_pc = "done"
    /\ DataUriSignal(q_text) /\ RawBase64Signal(q_text)
    /\ encoded.form = "data_uri"
    /\ encoded.payload.len >= 1

\* The task-result keys that contain the requested key or are contained in
\* it, case folded.
FuzzyKeys(payload, k) ==
    {p \in DOMAIN payload : Contains(Lower(p), Lower(k)) \/ Contains(Lower(k), Lower(p))}

\* C27: in object shaping a requested key is resolved by an exact key match in
\* the task result first; otherwise by chart-slot routing of a generically
\* named image field; otherwise by a task-result key that contains the
\* requested key or is contained in it (case-insensitive); only a key for which
\* none of the three applies gets its default.
C27_ExactThenRoutedThenFuzzy ==
    (req_pc \in {"respond", "done"} /\ shaped.kind = "object") =>
        \A k \in DOMAIN shaped.obj :
            LET exact == Has(result_payload, k)
                routed == ~exact /\ Resolved(combined_plan, result_payload, k) # PyNone
                fuzzy == FuzzyKeys(result_payload, k)
            IN  /\ (exact /\ result_payload[k] \notin {PyNone, PyStr("")}) =>
                      shaped.obj[k] = Enforced(k, result_payload[k])
                /\ routed =>
                      shaped.obj[k] = Enforced(k, Resolved(combined_plan, result_payload, k))
                /\ (~exact /\ ~routed /\ fuzzy # {}) =>
                      \E p \in fuzzy : shaped.obj[k] = Enforced(k, result_payload[p])

\* The same without the third step: exact match, then chart-slot routing.
C27_ExactThenRouted ==
    (req_pc \in {"respond", "done"} /\ shaped.kind = "object") =>
        \A k \in DOMAIN shaped.obj :
            LET exact == Has(result_payload, k)
                routed == ~exact /\ Resolved(combined_plan, result_payload, k) # PyNone
            IN  /\ (exact /\ result_payload[k] \notin {PyNone, PyStr("")}) =>
                      shaped.obj[k] = Enforced(k, result_payload[k])
                /\ routed =>
                      shaped.obj[k] = Enforced(k, Resolved(combined_plan, result_payload, k))

\* C28: within one request every potentially slow step (a handler invocation,
\* an LLM consultation, a chart render or encode, those of result shaping
\* included) starts only after an exhaustion check made for it answered 'not
\* exhausted'; no such step starts once the budget is exhausted.
C28_SlowStepsOnlyAfterCheck ==
    [][ /\ Len(invoked') > Len(invoked) =>
              (route_check.made /\ ~route_check.exhausted)
        /\ (consulted' /\ ~consulted) => ~time_exhausted(ConsultBuffer)
        /\ (req_pc = "shape" /\ req_pc' = "respond"
              /\ ScatterKeys(variant, combined_plan, result_payload) # {}) =>
              ~time_exhausted(0)
      ]_vars

\* The same for the handler invocation and the LLM consultation of the router.
C28_RouterStepsOnlyAfterCheck ==
    [][ /\ Len(invoked') > Len(invoked) =>
              (route_check.made /\ ~route_check.exhausted)
        /\ (consulted' /\ ~consulted) => ~time_exhausted(ConsultBuffer)
      ]_vars

====
